---------------------------- MODULE Spec2Model ----------------------------
(***************************************************************************)
(* State-machine model of src/atm_simulator.py (class ATMSimulator).       *)
(*                                                                         *)
(* Amounts and the balance are Python floats.  A float is modelled as a    *)
(* binary floating-point number of MantBits significant bits and exponents *)
(* 0..MaxExp, with round-to-nearest-even, overflow to infinity, and NaN:   *)
(* IEEE-754 binary64 in miniature.  A finite float is an integer number of *)
(* units (one unit = the smallest positive float), so the exact real sum   *)
(* or difference of two floats is an integer, and FAdd/FSub round it.      *)
(*                                                                         *)
(* Methods are called one at a time.  authenticate() is modelled step by   *)
(* step (loop test, getpass prompt, its return or interruption); the other *)
(* methods are one step each.  `out` holds the lines the last step         *)
(* printed, with the numbers shown in them (the .2f formatting itself is   *)
(* not modelled).  Exceptions that escape a method (TypeError from float() *)
(* on a non-string, EOFError from getpass) are not modelled: run() passes  *)
(* strings only.                                                           *)
(***************************************************************************)
EXTENDS Integers, Sequences, FiniteSets, TLC

(* ----------------------------- bounds --------------------------------- *)

\* significant bits of a float (binary64 has 53)
MantBits == 3

\* largest exponent of a float (binary64 has 1023 above the smallest)
MaxExp == 2

\* the transaction log is explored up to this length
MaxLog == 3

\* max_attempts is drawn from -1..MaxTries
MaxTries == 3

(* ----------------------------- floats --------------------------------- *)

RECURSIVE Pow2(_)
Pow2(k) == IF k <= 0 THEN 1 ELSE 2 * Pow2(k - 1)

\* largest finite float, in units
MaxFinite == (Pow2(MantBits) - 1) * Pow2(MaxExp)

Fin(n) == [k |-> "fin", v |-> n]
PosInf == [k |-> "inf", v |-> 1]
NegInf == [k |-> "inf", v |-> -1]
NaN    == [k |-> "nan", v |-> 0]

\* spacing of the floats around the non-negative real n
RECURSIVE Quantum(_)
Quantum(n) == IF n < Pow2(MantBits) THEN 1 ELSE 2 * Quantum(n \div 2)

\* the non-negative real n rounded to the nearest float, ties to even
RoundMag(n) ==
    LET q  == Quantum(n)
        m  == n \div q
        lo == m * q
        r  == n - lo
    IN  IF 2 * r < q THEN lo
        ELSE IF 2 * r > q THEN lo + q
        ELSE IF m % 2 = 0 THEN lo ELSE lo + q

\* the real n as a float: rounded, and infinite when beyond the finite range
Round(n) ==
    LET mag == RoundMag(IF n < 0 THEN -n ELSE n)
    IN  IF mag > MaxFinite
        THEN (IF n < 0 THEN NegInf ELSE PosInf)
        ELSE Fin(IF n < 0 THEN -mag ELSE mag)

\* position of a non-NaN float on the extended real line
Ord(x) == IF x.k = "inf" THEN x.v * (MaxFinite + 1) ELSE x.v

\* x < y, x <= y, x > y on floats: every comparison with NaN is false
FLt(x, y) == x.k # "nan" /\ y.k # "nan" /\ Ord(x) < Ord(y)
FLe(x, y) == x.k # "nan" /\ y.k # "nan" /\ Ord(x) <= Ord(y)
FGt(x, y) == FLt(y, x)

FNeg(x) == IF x.k = "nan" THEN NaN ELSE [k |-> x.k, v |-> -x.v]

\* x + y on floats
FAdd(x, y) ==
    IF x.k = "nan" \/ y.k = "nan" THEN NaN
    ELSE IF x.k = "inf" /\ y.k = "inf" THEN (IF x.v = y.v THEN x ELSE NaN)
    ELSE IF x.k = "inf" THEN x
    ELSE IF y.k = "inf" THEN y
    ELSE Round(x.v + y.v)

\* x - y on floats
FSub(x, y) == FAdd(x, FNeg(y))


(* ------------------------- inputs and state --------------------------- *)

\* Amount texts handed to deposit and withdraw, as run() reads them with
\* input(): a decimal literal worth n units, "inf", "-inf", "nan", or a text
\* that is no number.
Lit(n)   == [s |-> "num", n |-> n]
InfText  == [s |-> "inf", n |-> 1]
NInfText == [s |-> "inf", n |-> -1]
NanText  == [s |-> "nan", n |-> 0]
BadText  == [s |-> "text", n |-> 0]
NoArg    == [s |-> "none", n |-> 0]

NumLits == {-1, 0, 1, 2, 9}
Tokens  == {Lit(n) : n \in NumLits} \cup {InfText, NInfText, NanText, BadText}

\* float(amount) raises ValueError on a text that is no number
RaisesValueError(tok) == tok.s = "text"

\* float(amount) otherwise: the literal rounded to the nearest float
ParseFloat(tok) ==
    CASE tok.s = "num" -> Round(tok.n)
      [] tok.s = "inf" -> [k |-> "inf", v |-> tok.n]
      [] tok.s = "nan" -> NaN

\* PINs are sequences of digits; the stored one and what a user may type
DefaultPin  == <<1, 2, 3, 4>>
EnteredPins == {<<1, 2, 3, 4>>, <<1, 2, 3>>, <<1, 2, 3, 4, 5>>, <<0, 0, 0, 0>>}

\* __init__'s default max_attempts
DefaultMaxAttempts == 3

\* initial balances, in units (non-negative floats)
InitBalances == {0, 3, 8}

\* instants datetime.now() may return
Times == {0, 1}

VARIABLES
    balance,          \* self._balance
    history,          \* self._transaction_history
    pin,              \* self._pin
    max_attempts,     \* self._max_attempts
    initial_balance,  \* the constructor's initial_balance
    apc,              \* where authenticate() stands: "idle", "while", "getpass"
    attempts,         \* authenticate's local attempts
    entered,          \* the credentials getpass returned in this authenticate call
    prompts,          \* the getpass prompts issued in this authenticate call
    locked_out,       \* authenticate() has returned from its lockout branch on this object
    session,          \* run(): "none" (not called), "auth", "menu", "exit0", "exit1"
    call,             \* the method called last, with its argument
    ret,              \* what it returned: "True", "False", "None" ("" before any return)
    out               \* the lines printed last, each with the values it shows

ledger == <<balance, history>>
auth   == <<apc, attempts, entered, prompts, locked_out>>
config == <<pin, max_attempts, initial_balance>>
vars   == <<balance, history, pin, max_attempts, initial_balance,
           apc, attempts, entered, prompts, locked_out, session, call, ret, out>>

\* ATMSimulator.__init__
Init ==
    /\ initial_balance \in {Fin(b) : b \in InitBalances}
    /\ balance = initial_balance
    /\ pin = DefaultPin
    /\ max_attempts \in -1..MaxTries
    /\ history = <<>>
    /\ apc = "idle"
    /\ attempts = 0
    /\ entered = <<>>
    /\ prompts = 0
    /\ locked_out = FALSE
    /\ session = "none"
    /\ call = [op |-> "__init__", arg |-> NoArg]
    /\ ret = ""
    /\ out = <<>>

\* a printed line: its text, the numbers formatted into it, and the
\* timestamp it shows (-1: none)
Line(text) == [text |-> text, vals |-> <<>>, ts |-> -1]
LineV(text, vals) == [text |-> text, vals |-> vals, ts |-> -1]

(* ----------------------------- ledger --------------------------------- *)

\* mutant of LogTransaction: the entry is inserted at the head of the log
LogTransactionAtHead(log, transaction_type, amount, bal, ts) ==
    <<[type      |-> transaction_type,
       amount    |-> amount,
       balance   |-> bal,
       timestamp |-> ts]>> \o log

\* _log_transaction: the log with one entry appended; bal is self._balance
\* as the method reads it, ts what datetime.now() returned
LogTransaction(log, transaction_type, amount, bal, ts) ==
    Append(log, [type      |-> transaction_type,
                 amount    |-> amount,
                 balance   |-> bal,
                 timestamp |-> ts])

\* mutant of InvalidAmount: `if amount < 0`, which lets zero through
InvalidAmountStrict(amount) == FLt(amount, Fin(0))

\* `if amount <= 0`
InvalidAmount(amount) == FLe(amount, Fin(0))

\* mutant of InsufficientFunds: the comparison turned round
InsufficientFundsReversed(amount, bal) == FLt(amount, bal)

\* `if amount > self._balance`
InsufficientFunds(amount, bal) == FGt(amount, bal)

\* a method is called only while no other call runs; the log is explored up
\* to MaxLog entries
CanCall == apc = "idle" /\ Len(history) < MaxLog

Rejected(op, tok, line) ==
    /\ call' = [op |-> op, arg |-> tok]
    /\ ret' = "False"
    /\ out' = <<Line(line)>>
    /\ UNCHANGED <<ledger, auth, config>>

\* deposit(amount)
Deposit(tok) ==
    /\ CanCall
    /\ IF RaisesValueError(tok)
       THEN Rejected("deposit", tok, "Invalid input. Please enter a numeric amount.")
       ELSE LET amount == ParseFloat(tok) IN
            IF InvalidAmount(amount)
            THEN Rejected("deposit", tok,
                          "Invalid deposit amount. Please enter a positive value.")
            ELSE /\ balance' = FAdd(balance, amount)
                 /\ \E ts \in Times :
                      history' = LogTransaction(history, "deposit", amount, balance', ts)
                 /\ call' = [op |-> "deposit", arg |-> tok]
                 /\ ret' = "True"
                 /\ out' = <<LineV("$ deposited successfully.", <<amount>>),
                              LineV("New balance: $", <<balance'>>)>>
                 /\ UNCHANGED <<auth, config>>

\* mutant of Withdraw: the balance is debited before the funds check
WithdrawDebitFirst(tok) ==
    /\ CanCall
    /\ IF RaisesValueError(tok)
       THEN Rejected("withdraw", tok, "Invalid input. Please enter a numeric amount.")
       ELSE LET amount == ParseFloat(tok) IN
            IF InvalidAmount(amount)
            THEN Rejected("withdraw", tok,
                          "Invalid withdrawal amount. Please enter a positive value.")
            ELSE /\ balance' = FSub(balance, amount)
                 /\ call' = [op |-> "withdraw", arg |-> tok]
                 /\ UNCHANGED <<auth, config>>
                 /\ IF InsufficientFunds(amount, balance)
                    THEN /\ ret' = "False"
                         /\ out' = <<Line("Insufficient funds!")>>
                         /\ UNCHANGED history
                    ELSE /\ \E ts \in Times :
                              history' = LogTransaction(history, "withdrawal", amount,
                                                        balance', ts)
                         /\ ret' = "True"
                         /\ out' = <<LineV("$ withdrawn successfully.", <<amount>>),
                                      LineV("New balance: $", <<balance'>>)>>

\* withdraw(amount)
Withdraw(tok) ==
    /\ CanCall
    /\ IF RaisesValueError(tok)
       THEN Rejected("withdraw", tok, "Invalid input. Please enter a numeric amount.")
       ELSE LET amount == ParseFloat(tok) IN
            IF InvalidAmount(amount)
            THEN Rejected("withdraw", tok,
                          "Invalid withdrawal amount. Please enter a positive value.")
            ELSE IF InsufficientFunds(amount, balance)
            THEN Rejected("withdraw", tok, "Insufficient funds!")
            ELSE /\ balance' = FSub(balance, amount)
                 /\ \E ts \in Times :
                      history' = LogTransaction(history, "withdrawal", amount, balance', ts)
                 /\ call' = [op |-> "withdraw", arg |-> tok]
                 /\ ret' = "True"
                 /\ out' = <<LineV("$ withdrawn successfully.", <<amount>>),
                              LineV("New balance: $", <<balance'>>)>>
                 /\ UNCHANGED <<auth, config>>

\* check_balance()
CheckBalance ==
    /\ CanCall
    /\ call' = [op |-> "check_balance", arg |-> NoArg]
    /\ ret' = "None"
    /\ out' = <<LineV("Your current balance is: $", <<balance>>)>>
    /\ UNCHANGED <<ledger, auth, config>>

\* str.capitalize() of a transaction type
Capitalize(t) == IF t = "deposit" THEN "Deposit" ELSE "Withdrawal"

\* the line print_transaction_history prints for one transaction
HistoryLine(transaction) ==
    [text |-> Capitalize(transaction.type),
     vals |-> <<transaction.amount, transaction.balance>>,
     ts   |-> transaction.timestamp]

\* mutant of PrintTransactionHistory: the log is consumed as it is printed
PrintTransactionHistoryDraining ==
    /\ CanCall
    /\ call' = [op |-> "print_transaction_history", arg |-> NoArg]
    /\ ret' = "None"
    /\ out' = IF history = <<>>
              THEN <<Line("No transactions found.")>>
              ELSE <<Line("--- Transaction History ---")>>
                   \o [i \in 1..Len(history) |-> HistoryLine(history[i])]
    /\ history' = <<>>
    /\ UNCHANGED <<balance, auth, config>>

\* print_transaction_history()
PrintTransactionHistory ==
    /\ CanCall
    /\ call' = [op |-> "print_transaction_history", arg |-> NoArg]
    /\ ret' = "None"
    /\ out' = IF history = <<>>
              THEN <<Line("No transactions found.")>>
              ELSE <<Line("--- Transaction History ---")>>
                   \o [i \in 1..Len(history) |-> HistoryLine(history[i])]
    /\ UNCHANGED <<ledger, auth, config>>

\* step A of a method called on the object directly (run() is not running)
Direct(A) == session = "none" /\ A /\ UNCHANGED session

NextLedger ==
    \/ \E tok \in Tokens : Direct(Deposit(tok))
    \/ \E tok \in Tokens : Direct(Withdraw(tok))
    \/ Direct(CheckBalance)
    \/ Direct(PrintTransactionHistory)

\* the ledger of an object built with the default max_attempts
InitLedger == Init /\ max_attempts = DefaultMaxAttempts

SpecLedger == InitLedger /\ [][NextLedger]_vars

(* -------------------------- authentication ---------------------------- *)

\* a is a prefix of b
IsPrefix(a, b) == Len(a) <= Len(b) /\ SubSeq(b, 1, Len(a)) = a

\* mutant of PinMatches: the stored PIN need only start with what was typed
PinMatchesPrefix(entered_pin, stored) == IsPrefix(entered_pin, stored)

\* `entered_pin == self._pin`: equality of strings
PinMatches(entered_pin, stored) == entered_pin = stored

\* mutant of MayAttempt: `while attempts <= self._max_attempts`
MayAttemptInclusive(n, limit) == n <= limit

\* `while attempts < self._max_attempts`
MayAttempt(n, limit) == n < limit

\* mutant of Authenticate: logging in starts a fresh transaction log
AuthenticateFreshLog ==
    /\ apc = "idle"
    /\ apc' = "while"
    /\ attempts' = 0
    /\ entered' = <<>>
    /\ prompts' = 0
    /\ call' = [op |-> "authenticate", arg |-> NoArg]
    /\ ret' = ""
    /\ out' = <<>>
    /\ history' = <<>>
    /\ UNCHANGED <<balance, config, locked_out>>

\* authenticate() is called: attempts = 0, and the loop head is next
Authenticate ==
    /\ apc = "idle"
    /\ apc' = "while"
    /\ attempts' = 0
    /\ entered' = <<>>
    /\ prompts' = 0
    /\ call' = [op |-> "authenticate", arg |-> NoArg]
    /\ ret' = ""
    /\ out' = <<>>
    /\ UNCHANGED <<ledger, config, locked_out>>

\* the loop condition holds: getpass prompts for a PIN
AuthPrompt ==
    /\ apc = "while"
    /\ MayAttempt(attempts, max_attempts)
    /\ apc' = "getpass"
    /\ prompts' = prompts + 1
    /\ out' = <<Line("Please enter your PIN: ")>>
    /\ UNCHANGED <<ledger, config, attempts, entered, locked_out, call, ret>>

\* the loop condition fails: the account is locked
AuthLockedOut ==
    /\ apc = "while"
    /\ ~MayAttempt(attempts, max_attempts)
    /\ apc' = "idle"
    /\ ret' = "False"
    /\ out' = <<Line("Too many invalid attempts. Account locked.")>>
    /\ locked_out' = TRUE
    /\ UNCHANGED <<ledger, config, attempts, entered, prompts, call>>

\* mutant of AuthEnter: the attempt is counted before the comparison
AuthEnterCountsFirst(entered_pin) ==
    /\ apc = "getpass"
    /\ entered' = Append(entered, entered_pin)
    /\ attempts' = attempts + 1
    /\ IF PinMatches(entered_pin, pin)
       THEN /\ apc' = "idle"
            /\ ret' = "True"
            /\ out' = <<Line("Authentication successful!")>>
       ELSE /\ apc' = "while"
            /\ out' = <<LineV("Invalid PIN. attempt(s) remaining.",
                               <<Fin(max_attempts - attempts')>>)>>
            /\ UNCHANGED ret
    /\ UNCHANGED <<ledger, config, prompts, locked_out, call>>

\* mutant of AuthEnter: a wrong PIN is not counted
AuthEnterNoCount(entered_pin) ==
    /\ apc = "getpass"
    /\ entered' = Append(entered, entered_pin)
    /\ IF PinMatches(entered_pin, pin)
       THEN /\ apc' = "idle"
            /\ ret' = "True"
            /\ out' = <<Line("Authentication successful!")>>
       ELSE /\ apc' = "while"
            /\ out' = <<LineV("Invalid PIN. attempt(s) remaining.",
                               <<Fin(max_attempts - attempts)>>)>>
            /\ UNCHANGED ret
    /\ UNCHANGED <<ledger, config, attempts, prompts, locked_out, call>>

\* getpass returns entered_pin: a match returns True, anything else counts
\* as an attempt and goes back to the loop head
AuthEnter(entered_pin) ==
    /\ apc = "getpass"
    /\ entered' = Append(entered, entered_pin)
    /\ IF PinMatches(entered_pin, pin)
       THEN /\ apc' = "idle"
            /\ ret' = "True"
            /\ out' = <<Line("Authentication successful!")>>
            /\ UNCHANGED attempts
       ELSE /\ apc' = "while"
            /\ attempts' = attempts + 1
            /\ out' = <<LineV("Invalid PIN. attempt(s) remaining.",
                               <<Fin(max_attempts - attempts')>>)>>
            /\ UNCHANGED ret
    /\ UNCHANGED <<ledger, config, prompts, locked_out, call>>

\* mutant of AuthInterrupt: the interruption is counted as a wrong PIN
AuthInterruptAsAttempt ==
    /\ apc = "getpass"
    /\ apc' = "while"
    /\ attempts' = attempts + 1
    /\ out' = <<LineV("Invalid PIN. attempt(s) remaining.",
                       <<Fin(max_attempts - attempts')>>)>>
    /\ UNCHANGED <<ledger, config, entered, prompts, locked_out, call, ret>>

\* getpass raises KeyboardInterrupt
AuthInterrupt ==
    /\ apc = "getpass"
    /\ apc' = "idle"
    /\ ret' = "False"
    /\ out' = <<Line("Operation cancelled.")>>
    /\ UNCHANGED <<ledger, config, attempts, entered, prompts, locked_out, call>>

NextAuth ==
    \/ Direct(Authenticate)
    \/ Direct(AuthPrompt)
    \/ Direct(AuthLockedOut)
    \/ \E entered_pin \in EnteredPins : Direct(AuthEnter(entered_pin))
    \/ Direct(AuthInterrupt)

SpecAuth == Init /\ [][NextAuth]_vars

\* a running authenticate() call goes on: the interpreter keeps executing,
\* and every getpass prompt returns a PIN or is interrupted
AuthProgress ==
    \/ Direct(AuthPrompt)
    \/ Direct(AuthLockedOut)
    \/ \E entered_pin \in EnteredPins : Direct(AuthEnter(entered_pin))
    \/ Direct(AuthInterrupt)

SpecAuthFair == SpecAuth /\ WF_vars(AuthProgress)

(* ------------------------------- run() -------------------------------- *)

\* amount texts and PINs typed in the sessions that are explored
SessionTokens == {Lit(1), Lit(0), BadText}

\* mutant of AfterAuthenticate: the result of authenticate() is ignored
AfterAuthenticateIgnored(result) == "menu"

\* `if not self.authenticate(): sys.exit(1)`, else the menu loop
AfterAuthenticate(result) == IF result = "True" THEN "menu" ELSE "exit1"

\* run() is called and calls authenticate()
RunStart ==
    /\ session = "none"
    /\ Authenticate
    /\ session' = "auth"

\* step A of authenticate() inside run(); when authenticate() returns,
\* run() exits the process with status 1 or enters the menu loop
RunAuthenticate(A) ==
    /\ session = "auth"
    /\ A
    /\ session' = IF apc' = "idle" THEN AfterAuthenticate(ret') ELSE session

\* menu choices 1 to 4: ledger method A is called, amounts read with input()
RunChoice(A) ==
    /\ session = "menu"
    /\ A
    /\ UNCHANGED session

\* any other menu choice but 5
RunInvalidChoice ==
    /\ session = "menu"
    /\ call' = [op |-> "run", arg |-> NoArg]
    /\ out' = <<Line("Invalid choice. Please try again.")>>
    /\ UNCHANGED <<ledger, auth, config, session, ret>>

\* menu choice 5: the loop is left and run() returns (exit status 0)
RunExit ==
    /\ session = "menu"
    /\ session' = "exit0"
    /\ call' = [op |-> "run", arg |-> NoArg]
    /\ ret' = "None"
    /\ out' = <<Line("Thank you for using the ATM. Goodbye!")>>
    /\ UNCHANGED <<ledger, auth, config>>

\* KeyboardInterrupt at one of the menu's input() calls: the loop is left
RunInterrupt ==
    /\ session = "menu"
    /\ session' = "exit0"
    /\ call' = [op |-> "run", arg |-> NoArg]
    /\ ret' = "None"
    /\ out' = <<Line("Operation cancelled.")>>
    /\ UNCHANGED <<ledger, auth, config>>

RunStep(toks, pins) ==
    \/ RunStart
    \/ RunAuthenticate(AuthPrompt)
    \/ RunAuthenticate(AuthLockedOut)
    \/ \E entered_pin \in pins : RunAuthenticate(AuthEnter(entered_pin))
    \/ RunAuthenticate(AuthInterrupt)
    \/ RunChoice(CheckBalance)
    \/ \E tok \in toks : RunChoice(Deposit(tok))
    \/ \E tok \in toks : RunChoice(Withdraw(tok))
    \/ RunChoice(PrintTransactionHistory)
    \/ RunInvalidChoice
    \/ RunExit
    \/ RunInterrupt

NextRun == RunStep(Tokens, EnteredPins)

\* run() on an object with one initial balance, explored with SessionTokens
InitRun == Init /\ initial_balance = Fin(3)

SpecRun == InitRun /\ [][RunStep(SessionTokens, EnteredPins)]_vars

(* ------------------ ledger and authentication calls ------------------- *)

\* PINs typed when authenticate() is called between ledger calls
SessionPins == {<<1, 2, 3, 4>>, <<0, 0, 0, 0>>}

\* a client calls the ledger methods and authenticate() in any order
NextCalls ==
    \/ \E tok \in SessionTokens : Direct(Deposit(tok))
    \/ \E tok \in SessionTokens : Direct(Withdraw(tok))
    \/ Direct(CheckBalance)
    \/ Direct(PrintTransactionHistory)
    \/ Direct(Authenticate)
    \/ Direct(AuthPrompt)
    \/ Direct(AuthLockedOut)
    \/ \E entered_pin \in SessionPins : Direct(AuthEnter(entered_pin))
    \/ Direct(AuthInterrupt)

SpecCalls == InitRun /\ [][NextCalls]_vars

(* --------------------------- the whole object ------------------------- *)

Next == NextLedger \/ NextAuth \/ NextRun

Spec == Init /\ [][Next]_vars


(* ------------------------------ claims -------------------------------- *)

LedgerOps == {"deposit", "withdraw"}

\* the amount text tok is a finite literal above zero
PositiveText(tok) == tok.s = "num" /\ tok.n > 0

\* the amount text tok is a number that is zero or negative
NonPositiveText(tok) == (tok.s = "num" /\ tok.n <= 0) \/ tok = NInfText

\* C1: from a non-negative initial balance, the balance is never negative
\* after any sequence of deposit and withdraw calls, accepted or rejected.
C1_BalanceNeverNegative == ~FLt(balance, Fin(0))

\* C1 witness: a withdrawal of the whole balance went through and left zero
C1_Witness ==
    /\ call.op = "withdraw" /\ ret = "True"
    /\ Len(history) = 2 /\ balance = Fin(0)

\* C2: a rejected deposit or withdraw call leaves the balance and the
\* transaction log exactly as they were before the call.
C2_RejectedLeavesLedger ==
    [][(call'.op \in LedgerOps /\ ret' = "False") => UNCHANGED <<balance, history>>]_vars

\* C2 witness: a withdrawal was refused for lack of funds on a ledger that
\* already holds a transaction
C2_Witness ==
    /\ call.op = "withdraw" /\ ret = "False"
    /\ out = <<Line("Insufficient funds!")>>
    /\ Len(history) = 1

\* C3: for a positive amount a and balance b, withdraw(a) succeeds with new
\* balance b - a when a <= b, and fails with InsufficientFunds, the balance
\* staying b, when a > b.  (a is the float the method computes from its
\* argument; b - a is the real difference.)
C3_WithdrawExact ==
    [][\A tok \in Tokens :
         (/\ call' = [op |-> "withdraw", arg |-> tok]
          /\ PositiveText(tok)
          /\ ParseFloat(tok).k = "fin"
          /\ balance.k = "fin")
         => LET a == ParseFloat(tok).v
                b == balance.v
            IN  IF a <= b
                THEN ret' = "True" /\ balance' = Fin(b - a)
                ELSE /\ ret' = "False"
                     /\ out' = <<Line("Insufficient funds!")>>
                     /\ balance' = balance]_vars

\* C4: a successful deposit(a) increases the balance by exactly a and appends
\* exactly one deposit transaction of amount a whose resulting balance is the
\* new balance.
C4_DepositExact ==
    [][\A tok \in Tokens :
         (/\ call' = [op |-> "deposit", arg |-> tok]
          /\ ret' = "True"
          /\ ParseFloat(tok).k = "fin"
          /\ balance.k = "fin")
         => LET a == ParseFloat(tok) IN
            /\ balance' = Fin(balance.v + a.v)
            /\ Len(history') = Len(history) + 1
            /\ SubSeq(history', 1, Len(history)) = history
            /\ history'[Len(history')].type = "deposit"
            /\ history'[Len(history')].amount = a
            /\ history'[Len(history')].balance = balance']_vars

\* C5: deposit and withdraw of a zero or negative amount fail with
\* InvalidAmount and produce no transaction, whatever the balance is; for
\* withdraw the outcome is never InsufficientFunds and never success.
C5_NonPositiveIsInvalid ==
    [][\A tok \in Tokens :
         (call'.op \in LedgerOps /\ call'.arg = tok /\ NonPositiveText(tok))
         => /\ ret' = "False"
            /\ out' = <<Line(IF call'.op = "deposit"
                             THEN "Invalid deposit amount. Please enter a positive value."
                             ELSE "Invalid withdrawal amount. Please enter a positive value.")>>
            /\ UNCHANGED <<balance, history>>]_vars

\* C5 witness: withdraw(0) on a zero balance was reported as an invalid amount
C5_Witness ==
    /\ call = [op |-> "withdraw", arg |-> Lit(0)]
    /\ balance = Fin(0)
    /\ out = <<Line("Invalid withdrawal amount. Please enter a positive value.")>>

\* the real sum of the first i logged amounts
RECURSIVE SumAmounts(_, _)
SumAmounts(log, i) == IF i = 0 THEN 0 ELSE SumAmounts(log, i - 1) + log[i].amount.v

\* C6: after valid deposits d1..dn on a fresh ledger the log has the n
\* entries, the i-th entry's resulting balance is initial_balance + d1 + ... +
\* di, and the balance is initial_balance + sum(di).
C6_DepositsArePartialSums ==
    (\A i \in 1..Len(history) :
        history[i].type = "deposit" /\ history[i].amount.k = "fin")
    => /\ \A i \in 1..Len(history) :
            history[i].balance = Fin(initial_balance.v + SumAmounts(history, i))
       /\ balance = Fin(initial_balance.v + SumAmounts(history, Len(history)))


Authenticated == <<Line("Authentication successful!")>>
LockedOut     == <<Line("Too many invalid attempts. Account locked.")>>
Cancelled     == <<Line("Operation cancelled.")>>

\* C7: with max_attempts = N >= 1, authenticate returns Authenticated on the
\* first presented credential equal to the stored one and solicits nothing
\* after it; when the first N credentials are all wrong it returns LockedOut
\* after the N-th, having solicited exactly N.
C7_FirstMatchOrLockout ==
    (call.op = "authenticate" /\ max_attempts >= 1) =>
      /\ \A i \in 1..Len(entered) :
            entered[i] = pin =>
              /\ i = Len(entered)
              /\ prompts = Len(entered)
              /\ apc = "idle" /\ ret = "True" /\ out = Authenticated
      /\ (apc = "idle" /\ ret = "True") =>
            Len(entered) >= 1 /\ entered[Len(entered)] = pin
      /\ (/\ Len(entered) >= max_attempts
          /\ \A i \in 1..max_attempts : entered[i] # pin) =>
            /\ Len(entered) = max_attempts
            /\ prompts = max_attempts
            /\ apc # "getpass"
            /\ apc = "while" => (ENABLED AuthLockedOut /\ ~ENABLED AuthPrompt)
            /\ apc = "idle" => (ret = "False" /\ out = LockedOut)

\* C7 witness: of three attempts the first was wrong and the second matched
C7_Witness ==
    /\ call.op = "authenticate" /\ max_attempts = 3
    /\ Len(entered) = 2 /\ entered[1] # pin /\ entered[2] = pin
    /\ apc = "idle" /\ ret = "True"

\* C8: with max_attempts = 0, authenticate yields LockedOut without
\* soliciting any credential.
C8_ZeroAttemptsLocksAtOnce ==
    (call.op = "authenticate" /\ max_attempts = 0) =>
      /\ prompts = 0 /\ entered = <<>> /\ apc # "getpass"
      /\ apc = "idle" => (ret = "False" /\ out = LockedOut)

\* C8 witness: authenticate has returned on an object with max_attempts = 0
C8_Witness ==
    /\ call.op = "authenticate" /\ max_attempts = 0
    /\ apc = "idle" /\ out = LockedOut

\* C9: when the prompt is interrupted instead of answered, authenticate
\* returns the outcome Cancelled, which is neither a wrong-PIN attempt nor
\* LockedOut, and the attempt counter is not incremented.
C9_InterruptCancels ==
    [][(apc = "getpass" /\ entered' = entered) =>
          /\ apc' = "idle" /\ ret' = "False"
          /\ out' = Cancelled /\ out' # LockedOut
          /\ attempts' = attempts
          /\ prompts' = prompts
          /\ locked_out' = locked_out]_vars

\* C9 witness: the second prompt of a call was interrupted
C9_Witness ==
    /\ call.op = "authenticate" /\ apc = "idle" /\ out = Cancelled
    /\ Len(entered) = 1 /\ prompts = 2 /\ attempts = 1

\* C10: once authenticate has returned LockedOut on an object, no credential
\* is solicited on that object again.
C10_LockoutIsTerminal == locked_out => apc # "getpass"


\* C11: the transaction log is append-only and holds the successful
\* mutations in call order: a successful deposit or withdraw appends exactly
\* one entry (of its kind and amount), a rejected call and every other
\* method append none, and the earlier log stays an unchanged prefix.
C11_LogIsAppendOnly ==
    [][/\ Len(history') >= Len(history)
       /\ SubSeq(history', 1, Len(history)) = history
       /\ (call'.op \in LedgerOps /\ ret' = "True") =>
             /\ Len(history') = Len(history) + 1
             /\ history'[Len(history')].type =
                   (IF call'.op = "deposit" THEN "deposit" ELSE "withdrawal")
             /\ history'[Len(history')].amount = ParseFloat(call'.arg)
       /\ ~(call'.op \in LedgerOps /\ ret' = "True") => history' = history]_vars

\* C11 witness: a deposit and a withdrawal are logged in that order, and the
\* call after them was rejected
C11_Witness ==
    /\ Len(history) = 2
    /\ history[1].type = "deposit" /\ history[2].type = "withdrawal"
    /\ call.op = "withdraw" /\ ret = "False"


LedgerMethods == {"check_balance", "deposit", "withdraw", "print_transaction_history"}

Goodbye == <<Line("Thank you for using the ATM. Goodbye!")>>

\* the last credential presented to authenticate() equals the stored one
PresentedStoredPin == Len(entered) >= 1 /\ entered[Len(entered)] = pin

\* C12: in a session driven by run(), no ledger operation is executed unless
\* authenticate returned success before; a failed authentication (LockedOut
\* or Cancelled) ends the session with exit status 1, and the exit choice
\* ends it with status 0.
C12_LedgerOnlyAfterAuthentication ==
    /\ call.op \in LedgerMethods => (session = "menu" /\ PresentedStoredPin)
    /\ (history # <<>> \/ balance # initial_balance) => PresentedStoredPin
    /\ session \in {"menu", "exit0"} => PresentedStoredPin
    /\ (call.op = "authenticate" /\ apc = "idle" /\ ret = "False") => session = "exit1"
    /\ session = "exit1" =>
          /\ ~PresentedStoredPin
          /\ call.op = "authenticate" /\ ret = "False"
          /\ out \in {LockedOut, Cancelled}
    /\ out = Goodbye => session = "exit0"

\* C12 witness: after two transactions the exit choice ended the session
C12_Witness ==
    /\ session = "exit0" /\ out = Goodbye
    /\ Len(history) = 2


\* C13: the balance query and the history query are pure reads: neither
\* changes the balance or the log, what each reports is determined by the
\* balance and the log alone (so repeating it without a mutation in between
\* reports the same), and an empty log is reported as a plain result.
C13_QueriesArePureReads ==
    [][/\ call'.op = "check_balance" =>
             /\ UNCHANGED <<balance, history>>
             /\ ret' = "None"
             /\ Len(out') = 1 /\ out'[1].vals = <<balance>>
       /\ call'.op = "print_transaction_history" =>
             /\ UNCHANGED <<balance, history>>
             /\ ret' = "None"
             /\ history = <<>> => out' = <<Line("No transactions found.")>>
             /\ history # <<>> =>
                   /\ Len(out') = Len(history) + 1
                   /\ \A i \in 1..Len(history) :
                         /\ out'[i + 1].vals = <<history[i].amount, history[i].balance>>
                         /\ out'[i + 1].ts = history[i].timestamp]_vars

\* C13 witness: the history of a log of two entries was printed
C13_Witness ==
    /\ call.op = "print_transaction_history"
    /\ Len(history) = 2 /\ Len(out) = 3

\* the amount text tok is not a finite number above zero
NotFinitePositiveText(tok) == NonPositiveText(tok) \/ tok \in {InfText, NanText}

\* C14: deposit and withdraw fail with InvalidAmount for every amount that
\* is not a finite positive number, positive infinity and NaN included, and
\* leave the balance and the log unchanged.
C14_NonFiniteIsInvalid ==
    [][\A tok \in Tokens :
         (call'.op \in LedgerOps /\ call'.arg = tok /\ NotFinitePositiveText(tok))
         => /\ ret' = "False"
            /\ out' = <<Line(IF call'.op = "deposit"
                             THEN "Invalid deposit amount. Please enter a positive value."
                             ELSE "Invalid withdrawal amount. Please enter a positive value.")>>
            /\ UNCHANGED <<balance, history>>]_vars


\* C15: during an authenticate call the attempt counter stays within
\* 0..max_attempts (for max_attempts >= 0), never decreases, and goes up by
\* exactly one only when a presented credential was found not equal to the
\* stored one, never on a match.
C15_AttemptCounter ==
    [][/\ max_attempts >= 0 => (0 <= attempts' /\ attempts' <= max_attempts)
       /\ apc # "idle" =>
             /\ attempts' >= attempts
             /\ attempts' # attempts =>
                   /\ attempts' = attempts + 1
                   /\ Len(entered') = Len(entered) + 1
                   /\ entered'[Len(entered')] # pin
             /\ (Len(entered') = Len(entered) + 1 /\ entered'[Len(entered')] = pin)
                   => attempts' = attempts]_vars

\* C15 witness: the counter has reached max_attempts = 3
C15_Witness ==
    /\ call.op = "authenticate" /\ max_attempts = 3
    /\ attempts = 3 /\ Len(entered) = 3

\* C19: every authenticate call returns, given that each prompt returns a
\* credential or an interruption, and it solicits at most max_attempts
\* credentials (none when max_attempts is zero or negative).
C19_AuthenticateTerminates ==
    /\ [](prompts <= (IF max_attempts > 0 THEN max_attempts ELSE 0))
    /\ (apc # "idle") ~> (apc = "idle" /\ ret \in {"True", "False"})

\* C19 witness: a call on an object with max_attempts = -1 has returned
C19_Witness ==
    /\ call.op = "authenticate" /\ max_attempts = -1
    /\ apc = "idle" /\ out = LockedOut /\ prompts = 0


\* C16: authenticate never touches the ledger: whatever its outcome and
\* however many attempts it takes, the balance and the log are the same
\* after the call as before it.
C16_AuthenticateLeavesLedger ==
    [][call'.op = "authenticate" => UNCHANGED <<balance, history>>]_vars

\* C16 witness: authenticate returned after two wrong credentials on an
\* object whose ledger holds two transactions
C16_Witness ==
    /\ call.op = "authenticate" /\ apc = "idle" /\ ret # ""
    /\ attempts = 2
    /\ Len(history) = 2 /\ balance # initial_balance


\* the real sum of the first i logged amounts, deposits added and
\* withdrawals subtracted
RECURSIVE NetAmounts(_, _)
NetAmounts(log, i) ==
    IF i = 0 THEN 0
    ELSE NetAmounts(log, i - 1)
         + (IF log[i].type = "deposit" THEN log[i].amount.v ELSE 0 - log[i].amount.v)

\* C17: conservation: after any interleaving of deposit and withdraw calls
\* the balance is the initial balance plus the logged deposit amounts minus
\* the logged withdrawal amounts.
C17_Conservation ==
    (\A i \in 1..Len(history) : history[i].amount.k = "fin")
    => balance = Fin(initial_balance.v + NetAmounts(history, Len(history)))

\* C18: the last entry's resulting balance is the current balance, an empty
\* log means the balance is the initial balance, and every entry has a
\* strictly positive amount and type deposit or withdrawal.
C18_LogMatchesBalance ==
    /\ Len(history) > 0 => history[Len(history)].balance = balance
    /\ Len(history) = 0 => balance = initial_balance
    /\ \A i \in 1..Len(history) :
        /\ FGt(history[i].amount, Fin(0))
        /\ history[i].type \in {"deposit", "withdrawal"}

============================================================================
